---- MODULE Spec2Model ----
(***************************************************************************)
(* The product catalog client (src/src/api/productApi.js) and the remote   *)
(* products handler (src/api/products.js).                                 *)
(*                                                                         *)
(* Strings the code inspects character by character (host names, base      *)
(* addresses) are sequences of one-character strings.  Messages are        *)
(* sequences of string fragments, so that a template literal is a          *)
(* concatenation.  JSON values are records with one fixed set of fields.   *)
(***************************************************************************)
EXTENDS Integers, Sequences, FiniteSets, TLC

VARIABLES
    hostname,       \* window.location.hostname
    envUrl,         \* process.env.REACT_APP_PRODUCTS_API_URL
    module,         \* which of the two modules of productApi.js the page
                    \* loaded: the first (lines 1-290) or the second
                    \* (lines 291-470)
    API_BASE_URL,   \* the constant of that module, line 42 or line 294
    localStorage,   \* the slot 'eyewear_products_backup'
    productsTable,  \* does the relation products exist in the store
    commentsTable,  \* does the relation comments exist in the store
    table,          \* the rows of products
    nextId,         \* the next value of the SERIAL sequence of products.id
    clock,          \* the store's NOW()
    columns,        \* the columns of products among those added after the
                    \* original shape of the relation
    calls,          \* the client operations in flight, one per caller
    request,        \* the request the handler answered in the last step
                    \* (none when the last step answered none)
    response,       \* what the handler answered to it
    serving         \* the invocations of the handler that overlap in time

vars == <<hostname, envUrl, module, API_BASE_URL, localStorage,
          productsTable, commentsTable, table, nextId, clock, columns, calls,
          request, response, serving>>

(***************************************************************************)
(* Bounds of the model.                                                    *)
(***************************************************************************)
\* NOW() never passes MaxClock: at most MaxClock inserts and updates happen.
MaxClock == 2
\* The longest product list handed to saveProductsBackup on its own.
MaxLen == 2

(***************************************************************************)
(* Strings.                                                                *)
(***************************************************************************)
LOCALHOST == <<"l", "o", "c", "a", "l", "h", "o", "s", "t">>
LOOPBACK_IP == <<"1", "2", "7", ".", "0", ".", "0", ".", "1">>
HTTP_PREFIX == <<"h", "t", "t", "p", ":", "/", "/">>
PORT_PATH == <<":", "5", "0", "0", "4", "/", "a", "p", "i">>
DEFAULT_URL == <<"h", "t", "t", "p", ":", "/", "/", "l", "o", "c", "a", "l", "h", "o", "s", "t", ":", "5", "0", "0", "4", "/", "a", "p", "i">>

\* Host names and override addresses the environment is drawn from.
HostLan == <<"1", "0", ".", "0", ".", "0", ".", "7">>
HostShop == <<"s", "h", "o", "p", ".", "i", "o">>
HostSub == <<"m", "y", "l", "o", "c", "a", "l", "h", "o", "s", "t", ".", "i", "o">>
HostNip == <<"1", "2", "7", ".", "0", ".", "0", ".", "1", ".", "x">>
HostLocalDomain == <<"l", "o", "c", "a", "l", "h", "o", "s", "t", ".", "i", "o">>
UrlA == <<"h", "t", "t", "p", "s", ":", "/", "/", "a", ".", "i", "o", "/", "a", "p", "i">>

Digits == {"0", "1", "2", "3", "4", "5", "6", "7", "8", "9"}

\* An optional string: undefined/null, or a string (possibly empty).
Undefined == [def |-> FALSE, str |-> <<>>]
Str(s) == [def |-> TRUE, str |-> s]
\* JavaScript truthiness of an optional string.
Truthy(x) == x.def /\ x.str # <<>>

\* String.prototype.includes
Includes(s, sub) ==
    \E i \in 1..(Len(s) - Len(sub) + 1) : SubSeq(s, i, i + Len(sub) - 1) = sub

\* The number of leading digits of s from position i on.
RECURSIVE DigitRun(_, _)
DigitRun(s, i) ==
    IF i <= Len(s) /\ s[i] \in Digits THEN 1 + DigitRun(s, i + 1) ELSE 0

\* Does s from position i on match (\d+\.){dots}\d+$ ?
RECURSIVE MatchParts(_, _, _)
MatchParts(s, i, dots) ==
    LET n == DigitRun(s, i)
        j == i + n
    IN  IF n = 0 THEN FALSE
        ELSE IF dots = 0 THEN j = Len(s) + 1
        ELSE j <= Len(s) /\ s[j] = "." /\ MatchParts(s, j + 1, dots - 1)

\* hostname.match(/^\d+\.\d+\.\d+\.\d+$/)
MatchesIPv4(s) == MatchParts(s, 1, 3)

(***************************************************************************)
(* Endpoint resolution: getApiBaseUrl, productApi.js lines 4-40.           *)
(***************************************************************************)
isDeployedEnvironment(host) ==
    /\ ~ Includes(host, LOCALHOST)
    /\ ~ Includes(host, LOOPBACK_IP)
    /\ ~ MatchesIPv4(host)

\* A resolver that looks at the host before the override.
getApiBaseUrl_hostFirst(host, env) ==
    IF isDeployedEnvironment(host) THEN Undefined
    ELSE IF Truthy(env) THEN env
    ELSE IF host # LOCALHOST /\ host # LOOPBACK_IP
         THEN Str(HTTP_PREFIX \o host \o PORT_PATH)
    ELSE Str(DEFAULT_URL)

getApiBaseUrl(host, env) ==
    IF Truthy(env) THEN env
    ELSE IF isDeployedEnvironment(host) THEN Undefined
    ELSE IF host # LOCALHOST /\ host # LOOPBACK_IP
         THEN Str(HTTP_PREFIX \o host \o PORT_PATH)
    ELSE Str(DEFAULT_URL)

\* The second module of the file (line 294): override or the default.
API_BASE_URL_2(env) == IF Truthy(env) THEN env ELSE Str(DEFAULT_URL)

\* The file holds two modules, each with its own productApi; a page loads
\* one of them.  The constant the module m computes when it is evaluated.
Modules == {1, 2}
baseOf(m, host, env) ==
    IF m = 1 THEN getApiBaseUrl(host, env) ELSE API_BASE_URL_2(env)

(***************************************************************************)
(* Products and JSON values.                                               *)
(*                                                                         *)
(* A product carries its identity, its timestamps and four of the body's   *)
(* fields: name (NOT NULL in the store) and status (DEFAULT 'active'),     *)
(* which stand for the required and the optional columns, and category and *)
(* brand, which the searches of the handler look at beside name.           *)
(***************************************************************************)
UNDEF == "undefined"    \* a field the request body does not carry
NULL == "NULL"          \* SQL NULL / JSON null inside a row
Names == {"A", "B"}

\* A product without category and brand.
Product(id, name, status, created, updated) ==
    [id |-> id, name |-> name, status |-> status,
     created_at |-> created, updated_at |-> updated,
     category |-> NULL, brand |-> NULL]

\* A JSON value (or a response body): shape tells which fields matter.
\*   "null"       null
\*   "nonfinite"  a number beyond the double range, e.g. 1e999 (Infinity)
\*   "true", "false"
\*   "array"      an array of products (items)
\*   "object"     one product (items[1])
\*   "envelope"   {success: true, <key>: payload}; payload is an array of
\*                products (pshape "array") or one product ("object")
\*   "failure"    {success: false, error: <error>}
\*   "empty"      {}
\*   "notjson"    a body that is no JSON text
\*                {success: false, error: <error>, message: <message>}
Value(shape, key, pshape, items, error) ==
    [shape |-> shape, key |-> key, pshape |-> pshape, items |-> items,
     error |-> error, message |-> <<>>]
Null == Value("null", "", "", <<>>, <<>>)
NonFinite == Value("nonfinite", "", "", <<>>, <<>>)
True == Value("true", "", "", <<>>, <<>>)
False == Value("false", "", "", <<>>, <<>>)
EmptyObject == Value("empty", "", "", <<>>, <<>>)
NotJson == Value("notjson", "", "", <<>>, <<>>)
Arr(items) == Value("array", "", "", items, <<>>)
Obj(p) == Value("object", "", "", <<p>>, <<>>)
Envelope(key, payload) == Value("envelope", key, payload.shape, payload.items, <<>>)
Failure(msg) == Value("failure", "", "", <<>>, msg)
FailureBecause(msg, message) == [Failure(msg) EXCEPT !.message = message]

\* data[key] of an envelope, for a key it carries.
Payload(v) == Value(v.pshape, "", "", v.items, <<>>)

\* The bundled sample set (../utils/addSampleProducts, imported at line 1).
sampleProducts ==
    << Product(0, "S1", "active", 0, 0), Product(0, "S2", "active", 0, 0) >>

(***************************************************************************)
(* JSON.stringify and JSON.parse.  A JSON text is the value it denotes;    *)
(* a non-finite number has no JSON text and is written as null.            *)
(***************************************************************************)
JSONstringify(v) ==
    [json |-> IF v.shape = "nonfinite" THEN Null ELSE v]

JSONparse(text) == text.json

(***************************************************************************)
(* The local backup store: productApi.js lines 114-140.                    *)
(* The slot is absent (getItem gives null) or holds a JSON text; a JSON    *)
(* text is never the empty string, so `if (stored)` is "the slot is set".  *)
(***************************************************************************)
NoItem == [has |-> FALSE, text |-> JSONstringify(Null)]
Item(text) == [has |-> TRUE, text |-> text]

\* sampleProducts.map((product, index) => ({...product, id: index + 1}))
SeededProducts ==
    Arr([i \in 1..Len(sampleProducts) |->
            [sampleProducts[i] EXCEPT !.id = i]])

\* A load that takes an empty stored list for no backup.
getStoredProducts_emptyIsNone(slot, readThrows) ==
    IF readThrows THEN SeededProducts
    ELSE IF slot.has /\ JSONparse(slot.text).items # <<>>
    THEN JSONparse(slot.text)
    ELSE SeededProducts

\* getStoredProducts(); readThrows: localStorage.getItem throws.
getStoredProducts(slot, readThrows) ==
    IF readThrows THEN SeededProducts
    ELSE IF slot.has THEN JSONparse(slot.text)
    ELSE SeededProducts

\* saveProductsBackup(products): the slot afterwards; writeThrows:
\* localStorage.setItem throws (quota exceeded), which is swallowed.
saveProductsBackup(slot, products, writeThrows) ==
    IF writeThrows THEN slot ELSE Item(JSONstringify(products))

\* x.length throws a TypeError exactly when x is null.
LengthThrows(v) == v.shape = "null"

(***************************************************************************)
(* The remote products handler: src/api/products.js.                       *)
(*                                                                         *)
(* The store is the record [pt, ct, rows, seq, now, cols]: do products and *)
(* comments exist, the rows of products, the SERIAL sequence, NOW(), the   *)
(* later columns products has.                                             *)
(* A request is [method, id, body]; id 0 is "no id in the query".          *)
(* A reply is [status, body, cors, db]: the response and the store after.  *)
(***************************************************************************)
Db == [pt |-> productsTable, ct |-> commentsTable, rows |-> table,
       seq |-> nextId, now |-> clock, cols |-> columns]

\* A request is [method, id, search, category, body]: the verb, the three
\* query parameters (id 0, search and category UNDEF: not in the query) and
\* the body.
Request(method, id, body) ==
    [method |-> method, id |-> id, search |-> UNDEF, category |-> UNDEF,
     body |-> body]
BodyWith(name, status, category, brand) ==
    [name |-> name, status |-> status, category |-> category, brand |-> brand]
Body(name, status) == BodyWith(name, status, UNDEF, UNDEF)
NoBody == Body(UNDEF, UNDEF)
\* GET with a query.
Query(id, search, category) ==
    [Request("GET", id, NoBody) EXCEPT !.search = search,
                                       !.category = category]

\* The characters of the texts that rows and queries carry.
Chars(text) ==
    CASE text = "A" -> <<"A">>
      [] text = "B" -> <<"B">>
      [] text = "Sun" -> <<"S", "u", "n">>
      [] text = "Ab" -> <<"A", "b">>
      [] text = "a" -> <<"a">>
      [] text = "SUN" -> <<"S", "U", "N">>
      [] text = "" -> <<>>
\* The lower-case form of a text, character by character.
LowerCase(str) ==
    LET Lower(ch) == CASE ch = "A" -> "a"
                       [] ch = "B" -> "b"
                       [] ch = "S" -> "s"
                       [] ch = "U" -> "u"
                       [] ch = "N" -> "n"
                       [] OTHER -> ch
    IN  [i \in DOMAIN str |-> Lower(str[i])]

\* column ILIKE '%term%': NULL matches nothing; otherwise the term occurs in
\* the column's text, letters compared without case.
ILike(column, term) ==
    /\ column # NULL
    /\ Includes(LowerCase(Chars(column)), LowerCase(Chars(term)))

\* `if (search)`, `if (category)`: the parameter is in the query and is not
\* the empty string.
Given(param) == param # UNDEF /\ param # ""

\* A parameter of a statement: undefined is sent as NULL.
Param(field) == IF field = UNDEF THEN NULL ELSE field

Reply(status, body, cors, db) ==
    [status |-> status, body |-> body, cors |-> cors, db |-> db]

\* Before the handler served anything.
NoRequest == Request("none", 0, NoBody)
NoReply == [status |-> 0, body |-> NotJson, cors |-> FALSE]

\* Invocations of the handler overlap: each `await sql` hands control to
\* the others.  An invocation is [pc, at, req]: pc is the statement it
\* awaits next, "alter" (the at-th of lines 92-102), "comments" (line 108),
\* "select" (lines 121-169), "delete" (line 369), or "idle" when it serves
\* no request.
Invocations == {1, 2}
IdleInvocation == [pc |-> "idle", at |-> 0, req |-> NoRequest]

\* ORDER BY created_at DESC (insertion sort; ties keep the table's order).
RECURSIVE OrderByCreatedDesc(_)
OrderByCreatedDesc(rows) ==
    IF rows = <<>> THEN <<>>
    ELSE LET rest == OrderByCreatedDesc(Tail(rows))
             h == Head(rows)
             newer == SelectSeq(rest, LAMBDA r : r.created_at > h.created_at)
             older == SelectSeq(rest, LAMBDA r : r.created_at <= h.created_at)
         IN  newer \o <<h>> \o older

\* SELECT * FROM products WHERE id = ${id}
RowsWithId(rows, id) == SelectSeq(rows, LAMBDA r : r.id = id)

\* A thrown error that leaves the handler without a response written.
InternalError_escapes(db, message) == Reply(0, NotJson, FALSE, db)

\* A statement on products throws when the relation does not exist, and an
\* insert or update throws when it would write NULL into name.  The thrown
\* error reaches handler's catch (lines 42-48): 500 with the error's message.
InternalError(db, message) ==
    Reply(500, FailureBecause(<<"Internal server error">>, message), TRUE, db)

\* The messages of the errors the store raises.
NoRelation == <<"relation \"", "products", "\" does not exist">>
NoColumn(column) ==
    <<"column \"", column, "\" of relation \"", "products", "\" does not exist">>
NotNullViolation(column) ==
    <<"null value in column \"", column, "\" of relation \"", "products",
      "\" violates not-null constraint">>

\* The columns the ALTER statements of lines 92-102 add, in their order.
AddedColumns ==
    << "framecolor", "style", "rim", "gender", "type", "featured",
       "bestseller", "sizes", "lenstypes", "discount", "colorimages" >>
AllAdded == { AddedColumns[i] : i \in DOMAIN AddedColumns }

\* CREATE TABLE IF NOT EXISTS products (lines 56-88): a relation created
\* here has every column; one that exists keeps its shape.
createProductsTable(db) ==
    IF db.pt THEN db ELSE [db EXCEPT !.pt = TRUE, !.cols = AllAdded]

\* CREATE TABLE IF NOT EXISTS comments (lines 108-114).
createCommentsTable(db) == [db EXCEPT !.ct = TRUE]

\* An INSERT or UPDATE that names every column (lines 221-226, 286-311)
\* throws when the relation or one of the columns does not exist.
WritableShape(db) == db.pt /\ db.cols = AllAdded
\* The error it then throws: the relation is missing, or the first of the
\* named columns that is.
ShapeError(db) ==
    IF ~ db.pt THEN NoRelation
    ELSE LET i == CHOOSE i \in DOMAIN AddedColumns :
                    /\ AddedColumns[i] \notin db.cols
                    /\ \A j \in 1..(i - 1) : AddedColumns[j] \in db.cols
         IN  NoColumn(AddedColumns[i])

\* Lines 116-176 with the search parameter looked at before id.
answerGet_searchFirst(req, db) ==
    IF Given(req.search)
    THEN LET result == SelectSeq(db.rows, LAMBDA r :
                           \/ ILike(r.name, req.search)
                           \/ ILike(r.category, req.search)
                           \/ ILike(r.brand, req.search))
         IN  Reply(200, Envelope("data", Arr(OrderByCreatedDesc(result))),
                   TRUE, db)
    ELSE IF req.id # 0
    THEN LET result == RowsWithId(db.rows, req.id)
         IN  IF Len(result) = 0
             THEN Reply(404, Failure(<<"Product not found">>), TRUE, db)
             ELSE Reply(200, Envelope("data", Obj(result[1])), TRUE, db)
    ELSE Reply(200, Envelope("data", Arr(OrderByCreatedDesc(db.rows))),
               TRUE, db)

\* handleGet after its migration statements (lines 116-176): the one SELECT
\* the query asks for, and its answer.
answerGet(req, db) ==
    IF req.id # 0
    THEN LET result == RowsWithId(db.rows, req.id)
         IN  IF Len(result) = 0
             THEN Reply(404, Failure(<<"Product not found">>), TRUE, db)
             ELSE Reply(200, Envelope("data", Obj(result[1])), TRUE, db)
    ELSE IF Given(req.search)
    THEN LET result == SelectSeq(db.rows, LAMBDA r :
                           \/ ILike(r.name, req.search)
                           \/ ILike(r.category, req.search)
                           \/ ILike(r.brand, req.search))
         IN  Reply(200, Envelope("data", Arr(OrderByCreatedDesc(result))),
                   TRUE, db)
    ELSE IF Given(req.category)
    THEN LET result == SelectSeq(db.rows, LAMBDA r :
                           ILike(r.category, req.category))
         IN  Reply(200, Envelope("data", Arr(OrderByCreatedDesc(result))),
                   TRUE, db)
    ELSE Reply(200, Envelope("data", Arr(OrderByCreatedDesc(db.rows))),
               TRUE, db)

\* handlePost, lines 184-248.
handlePost(req, db) ==
    IF ~ WritableShape(db) THEN InternalError(db, ShapeError(db))
    ELSE IF req.body.name = UNDEF
    THEN InternalError([db EXCEPT !.seq = db.seq + 1], NotNullViolation("name"))
    ELSE LET status == IF req.body.status = UNDEF THEN "active"
                       ELSE req.body.status
             row == [Product(db.seq, req.body.name, status, db.now, db.now)
                        EXCEPT !.category = Param(req.body.category),
                               !.brand = Param(req.body.brand)]
         IN  Reply(201, Envelope("data", Obj(row)), TRUE,
                   [db EXCEPT !.rows = Append(db.rows, row),
                              !.seq = db.seq + 1,
                              !.now = db.now + 1])

\* handlePut with created_at among the columns its UPDATE sets.
handlePut_rewritesCreated(req, db) ==
    IF ~ WritableShape(db) THEN InternalError(db, ShapeError(db))
    ELSE IF Len(RowsWithId(db.rows, req.id)) = 0
    THEN Reply(404, Failure(<<"Product not found">>), TRUE, db)
    ELSE IF req.body.name = UNDEF
    THEN InternalError(db, NotNullViolation("name"))
    ELSE LET rows == [i \in 1..Len(db.rows) |->
                        IF db.rows[i].id = req.id
                        THEN [db.rows[i] EXCEPT !.name = req.body.name,
                                                !.status = Param(req.body.status),
                                                !.category = Param(req.body.category),
                                                !.brand = Param(req.body.brand),
                                                !.created_at = db.now,
                                                !.updated_at = db.now]
                        ELSE db.rows[i]]
         IN  Reply(200, Envelope("data", Obj(RowsWithId(rows, req.id)[1])),
                   TRUE, [db EXCEPT !.rows = rows, !.now = db.now + 1])

\* handlePut, lines 251-333.
handlePut(req, db) ==
    IF ~ WritableShape(db) THEN InternalError(db, ShapeError(db))
    ELSE IF Len(RowsWithId(db.rows, req.id)) = 0
    THEN Reply(404, Failure(<<"Product not found">>), TRUE, db)
    ELSE IF req.body.name = UNDEF
    THEN InternalError(db, NotNullViolation("name"))
    ELSE LET status == IF req.body.status = UNDEF THEN NULL
                       ELSE req.body.status
             rows == [i \in 1..Len(db.rows) |->
                        IF db.rows[i].id = req.id
                        THEN [db.rows[i] EXCEPT !.name = req.body.name,
                                                !.status = status,
                                                !.category = Param(req.body.category),
                                                !.brand = Param(req.body.brand),
                                                !.updated_at = db.now]
                        ELSE db.rows[i]]
         IN  Reply(200, Envelope("data", Obj(RowsWithId(rows, req.id)[1])),
                   TRUE, [db EXCEPT !.rows = rows, !.now = db.now + 1])

\* handleDelete up to its DELETE statement (lines 338-363): the reply the
\* request ends with, or no reply yet (status 0) when the row was found and
\* the request goes on to the statement.
deleteCheck(req, db) ==
    IF req.id = 0
    THEN Reply(400, Failure(<<"Product ID is required">>), TRUE, db)
    ELSE IF ~ db.pt THEN InternalError(db, NoRelation)
    ELSE LET existingProduct == RowsWithId(db.rows, req.id)
         IN  IF Len(existingProduct) = 0
             THEN Reply(404, FailureBecause(<<"Product not found">>,
                                            <<"Product not found">>), TRUE, db)
             ELSE Reply(0, NotJson, TRUE, db)

\* The DELETE statement and what follows it (lines 367-381).  When the
\* statement returns no row, result[0] is undefined and the log of line 375
\* throws.
deleteStatement(req, db) ==
    LET result == RowsWithId(db.rows, req.id)
    IN  IF Len(result) = 0
        THEN InternalError(db,
                 <<"Cannot read properties of undefined (reading '", "name", "')">>)
        ELSE Reply(200, Envelope("data", Obj(result[1])), TRUE,
                   [db EXCEPT !.rows =
                       SelectSeq(db.rows, LAMBDA r : r.id # req.id)])

(***************************************************************************)
(* The transport between the client and its backend.                       *)
(*                                                                         *)
(* A response is [net, status, statusText, body]; net means fetch rejected *)
(* and no response exists.  What answers a request is one of               *)
(*   "handler"  the products handler above;                                *)
(*   "routed"   the products handler behind the deployment's route from    *)
(*              the path to the query (specified, not under src);          *)
(*   "network"  nothing: fetch rejects with TypeError 'Failed to fetch';   *)
(*   "gateway"  an intermediary: 502 with a body that is no JSON;          *)
(*   "foreign"  another backend (the base address is configurable):        *)
(*              200 with one of the bodies apiRequest tells apart.         *)
(***************************************************************************)
Response(status, statusText, body) ==
    [net |-> FALSE, status |-> status, statusText |-> statusText, body |-> body]
NoResponse == [net |-> TRUE, status |-> 0, statusText |-> "", body |-> NotJson]

StatusText(status) ==
    CASE status = 200 -> "OK"
      [] status = 201 -> "Created"
      [] status = 400 -> "Bad Request"
      [] status = 404 -> "Not Found"
      [] status = 405 -> "Method Not Allowed"
      [] status = 500 -> "Internal Server Error"
      [] OTHER -> "Bad Gateway"

ForeignRow == Product(1, "A", "active", 0, 0)
\* Bodies of another backend for a list read and for a read or write of one
\* product.
ForeignLists ==
    { Null, NonFinite, Arr(<<ForeignRow>>),
      Envelope("products", Arr(<<ForeignRow>>)) }
ForeignItems == { Envelope("product", Obj(ForeignRow)) }

Via(kind, body) == [kind |-> kind, body |-> body]
OwnTransports ==
    { Via("handler", NotJson), Via("network", NotJson), Via("gateway", NotJson) }
ListTransports == OwnTransports \cup { Via("foreign", b) : b \in ForeignLists }
ItemTransports == OwnTransports \cup { Via("foreign", b) : b \in ForeignItems }
\* What may answer GET <base>/health, a path the products handler does not serve.
HealthTransports ==
    { Via("network", NotJson), Via("gateway", NotJson), Via("foreign", EmptyObject) }

\* The answer of a transport other than the handler.
Exchange(via) ==
    CASE via.kind = "network" -> NoResponse
      [] via.kind = "gateway" -> Response(502, StatusText(502), NotJson)
      [] OTHER -> Response(200, StatusText(200), via.body)

(***************************************************************************)
(* The request executor: apiRequest, productApi.js lines 45-111.           *)
(* An outcome is [st, val, msg, name]: "returned" with a value, or "threw"  *)
(* with the message and the name of the error.                             *)
(***************************************************************************)
Returned(v) == [st |-> "returned", val |-> v, msg |-> <<>>, name |-> ""]
\* throw new Error(msg)
Threw(msg) == [st |-> "threw", val |-> Null, msg |-> msg, name |-> "Error"]
NoOutcome == [st |-> "none", val |-> Null, msg |-> <<>>, name |-> ""]
\* Errors the runtime throws: a TypeError, and the SyntaxError of JSON.parse.
TypeError(msg) == [Threw(msg) EXCEPT !.name = "TypeError"]
SyntaxError(msg) == [Threw(msg) EXCEPT !.name = "SyntaxError"]

\* Reading a property of null: TypeError.
NullRead(prop) ==
    TypeError(<<"Cannot read properties of null (reading '", prop, "')">>)

\* Lines 101-107: the catch of apiRequest takes the error for a network
\* error, and logs "Cannot connect to backend server", when its message
\* includes 'Failed to fetch' or it is a TypeError.
networkErrorLogged(error) ==
    \/ \E i \in DOMAIN error.msg : error.msg[i] = "Failed to fetch"
    \/ error.name = "TypeError"

\* response.ok
Ok(resp) == resp.status >= 200 /\ resp.status <= 299

\* Lines 81-94: the four shapes told apart.
normalize(data) ==
    IF data.shape = "null" THEN NullRead("success")
    ELSE IF data.shape = "envelope" /\ data.key = "products"
    THEN Returned(Payload(data))
    ELSE IF data.shape = "envelope" /\ data.key = "product"
    THEN Returned(Payload(data))
    ELSE Returned(data)

\* Lines 70-76: the message of a non-2xx response.
errorMessage(resp) ==
    LET errorData == IF resp.body.shape = "notjson" THEN EmptyObject
                     ELSE resp.body
    IN  IF errorData.shape = "null" THEN NullRead("error")
        ELSE IF errorData.error # <<>> THEN Threw(errorData.error)
        ELSE Threw(<<"HTTP ", ToString(resp.status), ": ", resp.statusText>>)

\* An executor without the check of line 47.
noApiUrl_never(base) == FALSE

\* Line 47: `if (!API_BASE_URL)`, the check that precedes every fetch of
\* apiRequest.
noApiUrl(base) == ~ Truthy(base)

\* apiRequest, given the answer to its fetch (not looked at without a base).
apiRequest(base, resp) ==
    IF noApiUrl(base)
    THEN Threw(<<"No API URL configured - using localStorage">>)
    ELSE IF resp.net THEN TypeError(<<"Failed to fetch">>)
    ELSE IF ~ Ok(resp) THEN errorMessage(resp)
    ELSE IF resp.body.shape = "notjson"
    THEN SyntaxError(<<"Unexpected token in JSON">>)
    ELSE normalize(resp.body)

\* apiRequest of the second module (lines 297-338): the body as it is.
apiRequest_2(base, resp) ==
    IF resp.net THEN TypeError(<<"Failed to fetch">>)
    ELSE IF ~ Ok(resp) THEN errorMessage(resp)
    ELSE IF resp.body.shape = "notjson"
    THEN SyntaxError(<<"Unexpected token in JSON">>)
    ELSE Returned(resp.body)

\* The executor of the module m.
apiRequestOf(m, base, resp) ==
    IF m = 1 THEN apiRequest(base, resp) ELSE apiRequest_2(base, resp)

(***************************************************************************)
(* The catalog client: productApi, productApi.js lines 142-280 (and lines  *)
(* 369-468 in the second module), as functions of the outcome r of the     *)
(* apiRequest each one awaits.  The result is [out, slot]: what the caller *)
(* gets and the backup slot after.  storageThrows: does the localStorage   *)
(* access the function makes throw.                                        *)
(***************************************************************************)
Done(out, slot) == [out |-> out, slot |-> slot]

\* A read-all that persists what it loaded where no backend is configured.
getAllProducts_persistsLoaded(base, r, slot, storageThrows) ==
    IF ~ Truthy(base)
    THEN LET products == getStoredProducts(slot, storageThrows)
         IN  Done(Returned(products),
                  saveProductsBackup(slot, products, storageThrows))
    ELSE IF r.st = "returned" /\ ~ LengthThrows(r.val)
    THEN Done(Returned(r.val), saveProductsBackup(slot, r.val, storageThrows))
    ELSE Done(Returned(getStoredProducts(slot, storageThrows)), slot)

\* getAllProducts, lines 168-194.
getAllProducts(base, r, slot, storageThrows) ==
    IF ~ Truthy(base)
    THEN LET products == getStoredProducts(slot, storageThrows)
         IN  IF LengthThrows(products)
             THEN Done(NullRead("length"), slot)
             ELSE Done(Returned(products), slot)
    ELSE IF r.st = "returned" /\ ~ LengthThrows(r.val)
    THEN Done(Returned(r.val), saveProductsBackup(slot, r.val, storageThrows))
    ELSE LET backupProducts == getStoredProducts(slot, storageThrows)
         IN  IF LengthThrows(backupProducts)
             THEN Done(NullRead("length"), slot)
             ELSE Done(Returned(backupProducts), slot)

\* getAllProducts of the second module, lines 371-382: no branch for a
\* missing base address, and no read of the list's length.
getAllProducts_2(r, slot, storageThrows) ==
    IF r.st = "returned"
    THEN Done(Returned(r.val), saveProductsBackup(slot, r.val, storageThrows))
    ELSE Done(Returned(getStoredProducts(slot, storageThrows)), slot)

\* getAllProducts of the module m.
getAllProductsOf(m, base, r, slot, storageThrows) ==
    IF m = 1 THEN getAllProducts(base, r, slot, storageThrows)
    ELSE getAllProducts_2(r, slot, storageThrows)

\* products.find(p => p.id === parseInt(id)), lines 204-209.
findById(products, id) ==
    IF products.shape = "null" THEN NullRead("find")
    ELSE IF products.shape # "array"
    THEN TypeError(<<"products.find is not a function">>)
    ELSE LET found == SelectSeq(products.items, LAMBDA p : p.id = id)
         IN  IF found = <<>>
             THEN Threw(<<"Product with ID ", ToString(id), " not found">>)
             ELSE Returned(Obj(found[1]))

\* getProductById, lines 197-211.
getProductById(id, r, slot, storageThrows) ==
    IF r.st = "returned" THEN Done(r, slot)
    ELSE Done(findById(getStoredProducts(slot, storageThrows), id), slot)

\* The catch of a mutation, lines 230-233, 253-256, 275-278.
Prefix(op) ==
    CASE op = "createProduct" -> "Failed to create product: "
      [] op = "updateProduct" -> "Failed to update product: "
      [] OTHER -> "Failed to delete product: "
\* A catch that rethrows the error as it is.
mutationFailed_asIs(op, r) == Threw(r.msg)

mutationFailed(op, r) == Threw(<<Prefix(op)>> \o r.msg)

\* A refresh that reads the list and leaves the slot alone.
refreshBackup_keepsOld(list, slot, writeThrows) == slot

\* The backup refresh of a mutation once its getAllProducts has ended with
\* the outcome list (lines 224, 247, 269): saveProductsBackup of what it
\* returned; when it threw, the catch of lines 225, 248, 270 logs the error.
\* The slot afterwards.
refreshBackup(list, slot, writeThrows) ==
    IF list.st = "returned"
    THEN saveProductsBackup(slot, list.val, writeThrows)
    ELSE slot

\* A mutation whose refresh is not guarded by its own try/catch.
mutationResult_unguarded(newProduct, refreshThrew) ==
    IF refreshThrew THEN NullRead("length") ELSE Returned(newProduct)

\* What a mutation reports once its remote step returned newProduct and the
\* refresh ended (refreshThrew: getAllProducts threw), lines 229, 252, 274.
mutationResult(newProduct, refreshThrew) == Returned(newProduct)

(***************************************************************************)
(* The steps of the handler.  Each invocation is an async function: it     *)
(* runs up to its next `await sql`, and the statements of the invocations  *)
(* that overlap are run by the store in some order.                        *)
(***************************************************************************)
SetDb(db) ==
    /\ productsTable' = db.pt
    /\ commentsTable' = db.ct
    /\ table' = db.rows
    /\ nextId' = db.seq
    /\ clock' = db.now
    /\ columns' = db.cols

UnchangedDb ==
    UNCHANGED <<productsTable, commentsTable, table, nextId, clock, columns>>
UnchangedEnv == UNCHANGED <<hostname, envUrl, module, API_BASE_URL>>
\* A step in which no invocation of the handler moves.
NotServed ==
    /\ request' = NoRequest
    /\ response' = NoReply
    /\ UNCHANGED serving

\* A step of invocation h that ends it with the reply r.
Answers(h, req, r) ==
    /\ request' = req
    /\ response' = [status |-> r.status, body |-> r.body, cors |-> r.cors]
    /\ SetDb(r.db)
    /\ serving' = [serving EXCEPT ![h] = IdleInvocation]
    /\ UnchangedEnv
    /\ UNCHANGED localStorage

\* A step of invocation h that leaves the store as db and the invocation
\* awaiting its next statement.
Awaits(h, req, pc, at, db) ==
    /\ request' = NoRequest
    /\ response' = NoReply
    /\ SetDb(db)
    /\ serving' = [serving EXCEPT ![h] = [pc |-> pc, at |-> at, req |-> req]]
    /\ UnchangedEnv
    /\ UNCHANGED localStorage

\* What the fetch of a client resolves with after this step of the
\* invocation that serves it: the response, once there is one.
Received ==
    IF request'.method = "none" THEN NoResponse
    ELSE Response(response'.status, StatusText(response'.status),
                  response'.body)

\* The answer of invocation h reaches the caller whose fetch it serves, when
\* a caller of the client issued the request.
Deliver(h) ==
    calls' = IF h \in DOMAIN calls /\ calls[h].pc # "idle"
             THEN [calls EXCEPT ![h].resp = Received]
             ELSE calls

\* export default async function handler(req, res), lines 15-50: the
\* request reaches invocation h, which runs up to the answer of its first
\* statement.  OPTIONS is answered before the CORS headers are set (lines
\* 17-24).  A GET runs CREATE TABLE products (line 56); a DELETE its
\* existence check (line 354); a POST and a PUT have one statement and the
\* other verbs none, so they are answered.
Serve(h, method, id, body) ==
    LET req == Request(method, id, body)
    IN  /\ serving[h].pc = "idle"
        /\ CASE method = "OPTIONS" ->
                    Answers(h, req, Reply(200, EmptyObject, FALSE, Db))
             [] method = "GET" ->
                    Awaits(h, req, "alter", 1, createProductsTable(Db))
             [] method = "POST" -> Answers(h, req, handlePost(req, Db))
             [] method = "PUT" -> Answers(h, req, handlePut(req, Db))
             [] method = "DELETE" ->
                    LET checked == deleteCheck(req, Db)
                    IN  IF checked.status # 0 THEN Answers(h, req, checked)
                        ELSE Awaits(h, req, "delete", 0, checked.db)
             [] OTHER ->
                    Answers(h, req, Reply(405, Failure(<<"Method not allowed">>),
                                          TRUE, Db))

\* The next ALTER statement of a GET (lines 92-102) is run: it adds its
\* column, or it throws, and the catch of line 103 skips the ones after it.
Alter(h, throws) ==
    /\ serving[h].pc = "alter"
    /\ UNCHANGED calls
    /\ LET i == serving[h].at
           added == [Db EXCEPT !.cols = Db.cols \cup {AddedColumns[i]}]
       IN  IF throws THEN Awaits(h, serving[h].req, "comments", 0, Db)
           ELSE IF i < Len(AddedColumns)
           THEN Awaits(h, serving[h].req, "alter", i + 1, added)
           ELSE Awaits(h, serving[h].req, "comments", 0, added)

\* CREATE TABLE comments of a GET (line 108) is run.
CreateComments(h) ==
    /\ serving[h].pc = "comments"
    /\ UNCHANGED calls
    /\ Awaits(h, serving[h].req, "select", 0, createCommentsTable(Db))

\* The SELECT of a GET (lines 121, 136, 154 or 169) is run and answered.
\* The invocation reads req.query here for the first time (line 117).
Select(h, query) ==
    /\ serving[h].pc = "select"
    /\ Answers(h, query, answerGet(query, Db))
    /\ Deliver(h)

\* The DELETE statement of a DELETE (line 369) is run and answered.
Delete(h) ==
    /\ serving[h].pc = "delete"
    /\ Answers(h, serving[h].req, deleteStatement(serving[h].req, Db))
    /\ Deliver(h)

(***************************************************************************)
(* The client operations in flight.                                        *)
(*                                                                         *)
(* A call is the record of one caller's current (or last) operation:       *)
(*   op      the operation;  id  its id argument (0: none)                 *)
(*   pc      "idle": not started or ended; "request": awaiting the answer  *)
(*           to its first fetch; "refresh": a mutation awaiting the answer *)
(*           to the GET of its backup refresh; "save": a mutation awaiting *)
(*           the getAllProducts of its refresh, which has ended            *)
(*   resp    the answer to the fetch;  via  what answered the last fetch   *)
(*   mres    what the remote step of a mutation returned                   *)
(*   list    how the getAllProducts of a mutation's refresh ended          *)
(*   out     the outcome the caller got                                    *)
(*   nfetch  the fetches the operation issued;  base  the base address of  *)
(*           the last one                                                  *)
(*   after   the caller's previous operation was a mutation that reported  *)
(*           success                                                       *)
(*   rf      how the backup refresh of a mutation went: "saved",           *)
(*           "writeFailed" (a setItem threw), "fallback" (the re-fetch     *)
(*           failed and the backup was read instead), "threw"              *)
(*           (getAllProducts threw)                                        *)
(* A fetch the handler answers is served by the invocation with the        *)
(* caller's number; the caller goes on when that invocation has ended.     *)
(***************************************************************************)
Callers == {1}
Mutations == {"createProduct", "updateProduct", "deleteProduct"}
Bodies == { Body("A", UNDEF), Body("B", "sold"), Body(UNDEF, UNDEF) }
IdArgs == 1..MaxClock

IdleCall ==
    [op |-> "none", pc |-> "idle", id |-> 0, resp |-> NoResponse,
     via |-> "none", mres |-> Null, list |-> NoOutcome, out |-> NoOutcome,
     nfetch |-> 0, base |-> Undefined, after |-> FALSE, rf |-> "none"]

\* The record of an operation that starts now.
Begin(c, op, id) ==
    [IdleCall EXCEPT !.op = op, !.id = id,
                     !.after = (calls[c].op \in Mutations
                                /\ calls[c].out.st = "returned")]

\* The answer to caller c's fetch has arrived.
Answered(c) == serving[c].pc = "idle"

\* The deployment's route from the path <base>/products/<id> to the
\* handler: the id of the path is the id of the query.  (Nothing under src
\* holds it; section 4.6 of the specification has update, delete and
\* read-one reach the handler with their id.)
route(id) == id

\* fetch(url, config): the request goes to one of the transports.  The
\* handler serves it statement by statement; the others answer it when it
\* is issued.  The caller looks at the answer in a later step.
\* The client puts the id into the path of the url (`/products/${id}`,
\* lines 199, 239, 262) and sends no query; the handler reads the id from
\* req.query alone (products.js lines 117, 253, 338), so the request it
\* serves carries no id, whatever the id of the call.  Only behind the
\* deployment's route ("routed") does the id reach it.
Fetch(c, call, method, id, body, transports) ==
    \E via \in transports :
        LET sent == [call EXCEPT !.via = via.kind,
                                 !.nfetch = call.nfetch + 1,
                                 !.base = API_BASE_URL]
        IN  IF via.kind \in {"handler", "routed"}
            THEN /\ Serve(c, method,
                          IF via.kind = "routed" THEN route(id) ELSE 0, body)
                 /\ calls' = [calls EXCEPT ![c] =
                                 [sent EXCEPT !.resp = Received]]
            ELSE /\ calls' = [calls EXCEPT ![c] =
                                 [sent EXCEPT !.resp = Exchange(via)]]
                 /\ UnchangedDb /\ NotServed

\* testConnection, lines 144-165 (the second module has none).
TestConnection(c) ==
    /\ module = 1
    /\ calls[c].pc = "idle"
    /\ UnchangedEnv /\ UNCHANGED localStorage
    /\ IF ~ Truthy(API_BASE_URL)
       THEN /\ calls' = [calls EXCEPT ![c] =
                    [Begin(c, "testConnection", 0) EXCEPT !.out = Returned(False)]]
            /\ UnchangedDb /\ NotServed
       ELSE Fetch(c, [Begin(c, "testConnection", 0) EXCEPT !.pc = "request"],
                  "GET", 0, NoBody, HealthTransports)

RecvTestConnection(c) ==
    /\ calls[c].op = "testConnection" /\ calls[c].pc = "request"
    /\ UnchangedEnv /\ UnchangedDb /\ NotServed
    /\ UNCHANGED localStorage
    /\ calls' = [calls EXCEPT ![c].pc = "idle", ![c].resp = NoResponse,
                    ![c].out = IF ~ calls[c].resp.net /\ Ok(calls[c].resp)
                               THEN Returned(True) ELSE Returned(False)]

\* getAllProducts, lines 168-194 and 371-382.
GetAllProducts(c) ==
    /\ calls[c].pc = "idle"
    /\ UnchangedEnv
    /\ IF module = 1 /\ (~ Truthy(API_BASE_URL) \/ noApiUrl(API_BASE_URL))
       THEN \E storageThrows \in BOOLEAN :
              LET g == getAllProducts(API_BASE_URL,
                           apiRequest(API_BASE_URL, NoResponse),
                           localStorage, storageThrows)
              IN  /\ calls' = [calls EXCEPT ![c] =
                        [Begin(c, "getAllProducts", 0) EXCEPT !.out = g.out]]
                  /\ localStorage' = g.slot
                  /\ UnchangedDb /\ NotServed
       ELSE /\ Fetch(c, [Begin(c, "getAllProducts", 0) EXCEPT !.pc = "request"],
                     "GET", 0, NoBody, ListTransports)
            /\ UNCHANGED localStorage

\* The answer to the GET of getAllProducts has arrived: the rest of it
\* (lines 181-192, 375-380), with its one access to the backup slot.
RecvGetAllProducts(c) ==
    /\ calls[c].op = "getAllProducts" /\ calls[c].pc = "request"
    /\ Answered(c)
    /\ UnchangedEnv /\ UnchangedDb /\ NotServed
    /\ \E storageThrows \in BOOLEAN :
          LET g == getAllProductsOf(module, API_BASE_URL,
                       apiRequestOf(module, API_BASE_URL, calls[c].resp),
                       localStorage, storageThrows)
          IN  /\ calls' = [calls EXCEPT ![c].pc = "idle",
                              ![c].resp = NoResponse, ![c].out = g.out]
              /\ localStorage' = g.slot

\* getProductById, lines 197-211 and 385-399.
GetProductById(c, id) ==
    /\ calls[c].pc = "idle"
    /\ UnchangedEnv /\ UNCHANGED localStorage
    /\ IF module = 1 /\ noApiUrl(API_BASE_URL)
       THEN \E storageThrows \in BOOLEAN :
              LET g == getProductById(id, apiRequest(API_BASE_URL, NoResponse),
                                      localStorage, storageThrows)
              IN  /\ calls' = [calls EXCEPT ![c] =
                        [Begin(c, "getProductById", id) EXCEPT !.out = g.out]]
                  /\ UnchangedDb /\ NotServed
       ELSE Fetch(c, [Begin(c, "getProductById", id) EXCEPT !.pc = "request"],
                  "GET", id, NoBody, ItemTransports)

RecvGetProductById(c) ==
    /\ calls[c].op = "getProductById" /\ calls[c].pc = "request"
    /\ Answered(c)
    /\ UnchangedEnv /\ UnchangedDb /\ NotServed
    /\ UNCHANGED localStorage
    /\ \E storageThrows \in BOOLEAN :
          LET g == getProductById(calls[c].id,
                       apiRequestOf(module, API_BASE_URL, calls[c].resp),
                       localStorage, storageThrows)
          IN  calls' = [calls EXCEPT ![c].pc = "idle",
                           ![c].resp = NoResponse, ![c].out = g.out]

\* The remote step of createProduct, updateProduct, deleteProduct
\* (lines 216-219, 239-242, 262-264 and 404-407, 427-430, 450-452).
Mutate(c, op, method, id, body, transports) ==
    /\ calls[c].pc = "idle"
    /\ UnchangedEnv /\ UNCHANGED localStorage
    /\ IF module = 1 /\ noApiUrl(API_BASE_URL)
       THEN /\ calls' = [calls EXCEPT ![c] =
                    [Begin(c, op, id) EXCEPT !.out =
                        mutationFailed(op, apiRequest(API_BASE_URL, NoResponse))]]
            /\ UnchangedDb /\ NotServed
       ELSE Fetch(c, [Begin(c, op, id) EXCEPT !.pc = "request"],
                  method, id, body, transports)

CreateProduct(c, productData) ==
    /\ clock <= MaxClock /\ nextId <= MaxClock
    /\ Mutate(c, "createProduct", "POST", 0, productData, ItemTransports)

UpdateProduct(c, id, productData, transports) ==
    /\ clock <= MaxClock
    /\ Mutate(c, "updateProduct", "PUT", id, productData, transports)

DeleteProduct(c, id) ==
    Mutate(c, "deleteProduct", "DELETE", id, NoBody, ItemTransports)

\* The answer to the remote step of a mutation has arrived: the mutation
\* fails (the outer catch), or it goes on to its backup refresh, whose
\* getAllProducts fetches the full list (lines 223, 246, 268).
RecvMutation(c) ==
    /\ calls[c].op \in Mutations /\ calls[c].pc = "request"
    /\ Answered(c)
    /\ UnchangedEnv /\ UNCHANGED localStorage
    /\ LET r == apiRequestOf(module, API_BASE_URL, calls[c].resp)
       IN  IF r.st = "threw"
           THEN /\ calls' = [calls EXCEPT ![c].pc = "idle",
                                ![c].resp = NoResponse,
                                ![c].out = mutationFailed(calls[c].op, r)]
                /\ UnchangedDb /\ NotServed
           ELSE Fetch(c, [calls[c] EXCEPT !.pc = "refresh", !.mres = r.val],
                      "GET", 0, NoBody, ListTransports)

\* The answer to the refresh's GET has arrived: the getAllProducts of the
\* refresh runs to its end, with its one access to the backup slot (the
\* setItem of line 183 or the getItem of line 190).  The mutation awaits
\* its result and goes on in a later step.
RecvRefresh(c) ==
    /\ calls[c].op \in Mutations /\ calls[c].pc = "refresh"
    /\ Answered(c)
    /\ UnchangedEnv /\ UnchangedDb /\ NotServed
    /\ \E storageThrows \in BOOLEAN :
          LET r == apiRequestOf(module, API_BASE_URL, calls[c].resp)
              g == getAllProductsOf(module, API_BASE_URL, r, localStorage,
                                    storageThrows)
              rf == IF g.out.st = "threw" THEN "threw"
                    ELSE IF r.st = "threw" THEN "fallback"
                    ELSE IF storageThrows THEN "writeFailed"
                    ELSE "saved"
          IN  /\ localStorage' = g.slot
              /\ calls' = [calls EXCEPT ![c].pc = "save",
                              ![c].resp = NoResponse, ![c].rf = rf,
                              ![c].list = g.out]

\* The mutation goes on after `await productApi.getAllProducts()`: it saves
\* what that returned (lines 224, 247, 269), or the catch logs what it
\* threw, and the mutation returns (lines 229, 252, 274).
SaveRefreshed(c) ==
    /\ calls[c].op \in Mutations /\ calls[c].pc = "save"
    /\ UnchangedEnv /\ UnchangedDb /\ NotServed
    /\ \E writeThrows \in IF calls[c].list.st = "returned" THEN BOOLEAN
                          ELSE {FALSE} :
          /\ localStorage' = refreshBackup(calls[c].list, localStorage,
                                           writeThrows)
          /\ calls' = [calls EXCEPT ![c].pc = "idle",
                          ![c].list = NoOutcome,
                          ![c].rf = IF writeThrows /\ calls[c].rf = "saved"
                                    THEN "writeFailed" ELSE calls[c].rf,
                          ![c].out = mutationResult(calls[c].mres,
                                         calls[c].list.st = "threw")]

(***************************************************************************)
(* The environment of the page: the host context changes while the module  *)
(* stays loaded (API_BASE_URL was computed once, line 42).                 *)
(***************************************************************************)
Context(host, env) == [host |-> host, env |-> env]
ClientContexts == { Context(LOCALHOST, Undefined), Context(HostShop, Undefined) }

ChangeContext(ctx) ==
    /\ Context(hostname, envUrl) # ctx
    /\ hostname' = ctx.host
    /\ envUrl' = ctx.env
    /\ UNCHANGED <<module, API_BASE_URL, localStorage, calls>>
    /\ UnchangedDb /\ NotServed

\* The page loaded the module m in one of the contexts ctxs, against the
\* store db; nothing has been called.
Loads(m, ctxs, db, callers) ==
    /\ \E ctx \in ctxs :
          /\ hostname = ctx.host
          /\ envUrl = ctx.env
          /\ API_BASE_URL = baseOf(m, ctx.host, ctx.env)
    /\ module = m
    /\ localStorage = NoItem
    /\ productsTable = db.pt
    /\ commentsTable = db.ct
    /\ table = db.rows
    /\ nextId = db.seq
    /\ clock = db.now
    /\ columns = db.cols
    /\ calls = [c \in callers |-> IdleCall]
    /\ request = NoRequest
    /\ response = NoReply
    /\ serving = [h \in Invocations |-> IdleInvocation]

\* The store before the first deployment of the handler.
FreshStore ==
    [pt |-> FALSE, ct |-> FALSE, rows |-> <<>>, seq |-> 1, now |-> 1,
     cols |-> {}]

Init == \E m \in Modules : Loads(m, ClientContexts, FreshStore, Callers)

Next ==
    \/ \E c \in DOMAIN calls : TestConnection(c)
    \/ \E c \in DOMAIN calls : RecvTestConnection(c)
    \/ \E c \in DOMAIN calls : GetAllProducts(c)
    \/ \E c \in DOMAIN calls : RecvGetAllProducts(c)
    \/ \E c \in DOMAIN calls, id \in IdArgs : GetProductById(c, id)
    \/ \E c \in DOMAIN calls : RecvGetProductById(c)
    \/ \E c \in DOMAIN calls, b \in Bodies : CreateProduct(c, b)
    \/ \E c \in DOMAIN calls, id \in IdArgs, b \in Bodies :
          UpdateProduct(c, id, b, ItemTransports)
    \/ \E c \in DOMAIN calls, id \in IdArgs : DeleteProduct(c, id)
    \/ \E c \in DOMAIN calls : RecvMutation(c)
    \/ \E c \in DOMAIN calls : RecvRefresh(c)
    \/ \E c \in DOMAIN calls : SaveRefreshed(c)
    \/ \E ctx \in ClientContexts : ChangeContext(ctx)
    \/ \E h \in Invocations, throws \in BOOLEAN : Alter(h, throws)
    \/ \E h \in Invocations : CreateComments(h)
    \/ \E h \in Invocations : Select(h, serving[h].req)

Spec == Init /\ [][Next]_vars

(***************************************************************************)
(* The endpoint resolver on its own: the page is opened in some host       *)
(* context and the module is evaluated there (line 42).  Until then        *)
(* API_BASE_URL has no value.                                              *)
(***************************************************************************)
\* Beside the named hosts: 127.0.0.2, 1.2.3, 1.2.3.a, [::1], 1.2.3.456 and
\* the empty host name.
Hosts ==
    { LOCALHOST, LOOPBACK_IP, HostLan, HostShop, HostSub, HostNip,
      <<"1", "2", "7", ".", "0", ".", "0", ".", "2">>,
      <<"1", ".", "2", ".", "3">>,
      <<"1", ".", "2", ".", "3", ".", "a">>,
      <<"[", ":", ":", "1", "]">>,
      <<"1", ".", "2", ".", "3", ".", "4", "5", "6">>,
      <<>> }
\* No override, the empty one, https://a.io/api, http://b:1, the default.
Overrides ==
    { Undefined, Str(<<>>), Str(UrlA),
      Str(<<"h", "t", "t", "p", ":", "/", "/", "b", ":", "1">>),
      Str(DEFAULT_URL) }

NotLoaded == [def |-> FALSE, str |-> <<"not evaluated">>]
Loaded == API_BASE_URL # NotLoaded

\* The page is opened at a host, with a build's override: nothing evaluated yet.
Navigate(host, env) ==
    /\ hostname' = host
    /\ envUrl' = env
    /\ API_BASE_URL' = NotLoaded
    /\ UNCHANGED <<module, localStorage, calls>>
    /\ UnchangedDb /\ NotServed

\* The page's bundle holds the module m, which is evaluated:
\* const API_BASE_URL = getApiBaseUrl() (line 42), or line 294.
LoadModule(m) ==
    /\ ~ Loaded
    /\ module' = m
    /\ API_BASE_URL' = baseOf(m, hostname, envUrl)
    /\ UNCHANGED <<hostname, envUrl, localStorage, calls>>
    /\ UnchangedDb /\ NotServed

InitResolver ==
    /\ hostname = LOCALHOST
    /\ envUrl = Undefined
    /\ module = 1
    /\ API_BASE_URL = NotLoaded
    /\ localStorage = NoItem
    /\ productsTable = FALSE
    /\ commentsTable = FALSE
    /\ table = <<>>
    /\ nextId = 1
    /\ clock = 1
    /\ columns = {}
    /\ calls = [c \in Callers |-> IdleCall]
    /\ request = NoRequest
    /\ response = NoReply
    /\ serving = [h \in Invocations |-> IdleInvocation]

NextResolver ==
    \/ \E host \in Hosts, env \in Overrides : Navigate(host, env)
    \/ \E m \in Modules : LoadModule(m)

SpecResolver == InitResolver /\ [][NextResolver]_vars

(***************************************************************************)
(* The local backup store on its own: saveProductsBackup and               *)
(* getStoredProducts applied to product lists, and the read-all of a page  *)
(* without a backend, which reads the store.  The call record keeps        *)
(* what was done last: mres the list last saved, rf whether its setItem    *)
(* went through, list what the load right before that save returned (when  *)
(* there was one and its getItem went through), via whether the getItem of *)
(* the last load went through, out what the last load returned.            *)
(***************************************************************************)
BackupRows == { Product(1, "A", "active", 1, 1), Product(2, "B", "sold", 1, 2) }
BackupLists ==
    UNION { [1..n -> BackupRows] : n \in 0..MaxLen }

Save(c, products, writeThrows) ==
    /\ localStorage' = saveProductsBackup(localStorage, Arr(products), writeThrows)
    /\ calls' = [calls EXCEPT ![c] =
            [IdleCall EXCEPT !.op = "saveProductsBackup",
                             !.mres = Arr(products),
                             !.list = IF /\ calls[c].op = "getStoredProducts"
                                         /\ calls[c].via = "read"
                                      THEN calls[c].out ELSE NoOutcome,
                             !.rf = IF writeThrows THEN "writeFailed"
                                   ELSE "saved"]]
    /\ UnchangedEnv /\ UnchangedDb /\ NotServed

Load(c, readThrows) ==
    /\ calls' = [calls EXCEPT ![c].op = "getStoredProducts",
                    ![c].via = IF readThrows THEN "readFailed" ELSE "read",
                    ![c].out = Returned(getStoredProducts(localStorage,
                                                          readThrows))]
    /\ UNCHANGED localStorage
    /\ UnchangedEnv /\ UnchangedDb /\ NotServed

\* getAllProducts where no backend is configured (lines 169-175).
ReadAllLocalOnly(c, storageThrows) ==
    /\ ~ Truthy(API_BASE_URL)
    /\ LET g == getAllProducts(API_BASE_URL,
                     apiRequest(API_BASE_URL, NoResponse),
                     localStorage, storageThrows)
       IN  /\ calls' = [calls EXCEPT ![c].op = "getAllProducts",
                           ![c].via = IF storageThrows THEN "readFailed"
                                      ELSE "read",
                           ![c].out = g.out]
           /\ localStorage' = g.slot
    /\ UnchangedEnv /\ UnchangedDb /\ NotServed

\* The page of a deployed site: no backend is configured.
InitBackup == Loads(1, {Context(HostShop, Undefined)}, FreshStore, Callers)

NextBackup ==
    \/ \E c \in DOMAIN calls, products \in BackupLists, writeThrows \in BOOLEAN :
          Save(c, products, writeThrows)
    \/ \E c \in DOMAIN calls, readThrows \in BOOLEAN : Load(c, readThrows)
    \/ \E c \in DOMAIN calls, storageThrows \in BOOLEAN :
          ReadAllLocalOnly(c, storageThrows)

SpecBackup == InitBackup /\ [][NextBackup]_vars

(***************************************************************************)
(* The products handler on its own: requests of every verb reach the       *)
(* handler directly (a browser's preflight, another client), against a     *)
(* store that is fresh or holds a products relation of the original shape. *)
(* Two invocations run at once; a step is one awaited statement of one of  *)
(* them, so the statements of overlapping requests interleave.             *)
(***************************************************************************)
QueryIds == 0..MaxClock

\* A store whose products relation predates the later columns (the case of
\* the comment of line 90) and holds one row.
OldStore ==
    [pt |-> TRUE, ct |-> FALSE, rows |-> <<Product(1, "A", "active", 0, 0)>>,
     seq |-> 2, now |-> 1, cols |-> {}]

\* The bodies the handler is driven with.
ServerBodies == Bodies \cup { BodyWith("B", UNDEF, "Sun", "Ab") }

\* A request of another client than productApi reaches the handler.
ServeGet(h) == Serve(h, "GET", 0, NoBody) /\ UNCHANGED calls
ServePost(h, body) ==
    /\ clock <= MaxClock /\ nextId <= MaxClock
    /\ Serve(h, "POST", 0, body)
    /\ UNCHANGED calls
ServePut(h, id, body) ==
    /\ clock <= MaxClock
    /\ Serve(h, "PUT", id, body)
    /\ UNCHANGED calls
ServeDelete(h, id) == Serve(h, "DELETE", id, NoBody) /\ UNCHANGED calls
ServeOptions(h) == Serve(h, "OPTIONS", 0, NoBody) /\ UNCHANGED calls
ServeOther(h) == Serve(h, "PATCH", 0, NoBody) /\ UNCHANGED calls

InitServer ==
    \E db \in {FreshStore, OldStore} :
        Loads(1, {Context(LOCALHOST, Undefined)}, db, Callers)

NextServer ==
    \/ \E h \in Invocations : ServeGet(h)
    \/ \E h \in Invocations, b \in ServerBodies : ServePost(h, b)
    \/ \E h \in Invocations, id \in QueryIds, b \in ServerBodies :
          ServePut(h, id, b)
    \/ \E h \in Invocations, id \in QueryIds : ServeDelete(h, id)
    \/ \E h \in Invocations : ServeOptions(h)
    \/ \E h \in Invocations : ServeOther(h)
    \/ \E h \in Invocations, throws \in BOOLEAN : Alter(h, throws)
    \/ \E h \in Invocations : CreateComments(h)
    \/ \E h \in Invocations, id \in QueryIds, search \in {UNDEF, "", "a"},
          category \in {UNDEF, "SUN"} : Select(h, Query(id, search, category))
    \/ \E h \in Invocations : Delete(h)

SpecServer == InitServer /\ [][NextServer]_vars

(***************************************************************************)
(* Two callers of the catalog client at once: each runs updateProduct      *)
(* (lines 237-257), whose awaits let the steps of the two calls, and the   *)
(* statements of the invocations that serve their fetches, interleave.     *)
(* The store has been migrated and holds one row.  The PUT of an update    *)
(* reaches the handler as the client sends it, and then the handler finds  *)
(* no id and the update fails, or over the deployment's route, with its    *)
(* id.                                                                     *)
(***************************************************************************)
Racers == {1, 2}
\* Both callers update the row the store holds, each with a body of its own
\* choice.
RaceIds == {1}
RaceBodies == { Body("A", UNDEF), Body("B", "sold") }

MigratedStore ==
    [pt |-> TRUE, ct |-> TRUE, rows |-> <<Product(1, "A", "active", 0, 0)>>,
     seq |-> 2, now |-> 1, cols |-> AllAdded]

\* What answers the PUT of an update here: the handler as the client
\* reaches it (without the id, so it answers 404 and the update fails), the
\* handler behind the deployment's route, or one of the other transports.
RaceTransports == ItemTransports \cup {Via("routed", NotJson)}

InitRace == Loads(1, {Context(LOCALHOST, Undefined)}, MigratedStore, Racers)

NextRace ==
    \/ \E c \in DOMAIN calls, id \in RaceIds, b \in RaceBodies :
          UpdateProduct(c, id, b, RaceTransports)
    \/ \E c \in DOMAIN calls : RecvMutation(c)
    \/ \E c \in DOMAIN calls : RecvRefresh(c)
    \/ \E c \in DOMAIN calls : SaveRefreshed(c)
    \/ \E h \in Invocations, throws \in BOOLEAN : Alter(h, throws)
    \/ \E h \in Invocations : CreateComments(h)
    \/ \E h \in Invocations : Select(h, serving[h].req)

SpecRace == InitRace /\ [][NextRace]_vars

(***************************************************************************)
(* Properties.                                                             *)
(***************************************************************************)
\* A step of caller c itself: not one of the invocation that serves its
\* fetch.
Step(c) == calls'[c] # calls[c] /\ Answered(c)
\* Caller c starts an operation in this step.
Starts(c) == calls[c].pc = "idle" /\ Step(c)
LocalOnly == ~ Truthy(API_BASE_URL)
NoBackendMessage == <<"No API URL configured - using localStorage">>
\* The full table as a list read presents it.
RemoteList == Arr(OrderByCreatedDesc(table))

\* C1: every getAllProducts call ends by returning a product list; none
\* ends by throwing.
C1_ReadAllReturnsProductList ==
    \A c \in DOMAIN calls :
        (calls[c].op = "getAllProducts" /\ calls[c].pc = "idle")
            => (calls[c].out.st = "returned" /\ calls[c].out.val.shape = "array")

\* C1, its first half alone: no getAllProducts call ends by throwing.
C1_ReadAllNeverThrows ==
    \A c \in DOMAIN calls :
        (calls[c].op = "getAllProducts" /\ calls[c].pc = "idle")
            => calls[c].out.st = "returned"

\* C2: a getAllProducts that follows a mutation reported successful, and was
\* answered by the handler, returns the remote table, and the backup slot
\* holds that same list.
C2_ReadAllAfterMutationMirrorsRemote ==
    \A c \in DOMAIN calls :
        (/\ calls[c].op = "getAllProducts" /\ calls[c].pc = "idle"
         /\ calls[c].after /\ calls[c].via = "handler")
            => (/\ calls[c].out = Returned(RemoteList)
                /\ localStorage = Item(JSONstringify(RemoteList)))

\* C3: for every success envelope of the handler, what apiRequest returns
\* is the payload of the envelope (the list, or the single product).
C3_HandlerEnvelopeUnwrapped ==
    \A c \in DOMAIN calls :
        (/\ calls[c].pc # "idle" /\ calls[c].via = "handler"
         /\ Ok(calls[c].resp) /\ calls[c].resp.body.shape = "envelope")
            => apiRequestOf(module, API_BASE_URL, calls[c].resp)
                   = Returned(Payload(calls[c].resp.body))

\* The cause of a failed remote step, as the transport determines it.
Cause(call) ==
    CASE call.via = "network" -> <<"Failed to fetch">>
      [] call.via = "gateway" -> <<"HTTP ", "502", ": ", "Bad Gateway">>
      [] OTHER -> call.resp.body.error
\* The remote step of call failed: no response, or a non-2xx one.
RemoteStepFailed(call) ==
    call.pc = "request" /\ (call.resp.net \/ ~ Ok(call.resp))

\* C4: a mutation whose remote step fails (no backend configured, no
\* response, a non-2xx response) ends in that step by throwing the
\* operation's context followed by the cause, and the step leaves the
\* backup slot as it was.
C4_FailedMutationSurfacesWrappedError ==
    [][\A c \in DOMAIN calls :
        /\ (Starts(c) /\ calls'[c].op \in Mutations /\ LocalOnly)
              => /\ calls'[c].pc = "idle"
                 /\ calls'[c].out =
                        Threw(<<Prefix(calls'[c].op)>> \o NoBackendMessage)
                 /\ localStorage' = localStorage
        /\ (Step(c) /\ calls[c].op \in Mutations /\ RemoteStepFailed(calls[c]))
              => /\ calls'[c].pc = "idle"
                 /\ calls'[c].out =
                        Threw(<<Prefix(calls[c].op)>> \o Cause(calls[c]))
                 /\ localStorage' = localStorage
      ]_vars

\* A create failed on the network while a backup was held.
C4_Witness ==
    \E c \in DOMAIN calls :
        /\ calls[c].op = "createProduct" /\ calls[c].pc = "idle"
        /\ calls[c].via = "network"
        /\ calls[c].out =
              Threw(<<"Failed to create product: ", "Failed to fetch">>)
        /\ localStorage.has

\* C5: once the remote step of a mutation returned, the mutation goes on to
\* its refresh, and however the refresh ends (the read-all it awaits, then
\* the save of what that returned) the mutation returns what the remote step
\* returned.
C5_RefreshNeverOverridesSuccess ==
    [][\A c \in DOMAIN calls :
        (Step(c) /\ calls[c].op \in Mutations) =>
            /\ (calls[c].pc = "request" /\ ~ RemoteStepFailed(calls[c]))
                  => /\ calls'[c].pc = "refresh"
                     /\ calls'[c].mres =
                            apiRequestOf(module, API_BASE_URL, calls[c].resp).val
            /\ calls[c].pc = "refresh"
                  => /\ calls'[c].pc = "save"
                     /\ calls'[c].mres = calls[c].mres
            /\ calls[c].pc = "save"
                  => /\ calls'[c].pc = "idle"
                     /\ calls'[c].out = Returned(calls[c].mres)
      ]_vars

\* A mutation returned although getAllProducts threw during its refresh.
C5_Witness ==
    \E c \in DOMAIN calls :
        /\ calls[c].op \in Mutations /\ calls[c].pc = "idle"
        /\ calls[c].rf = "threw"
        /\ calls[c].out = Returned(calls[c].mres)

\* C6: in local-only mode every operation ends in the step it starts in,
\* without a fetch; a mutation ends with the no-backend error.
C6_LocalOnlyNoNetwork ==
    LocalOnly =>
        \A c \in DOMAIN calls :
            /\ calls[c].pc = "idle" /\ calls[c].nfetch = 0
            /\ calls[c].via = "none"
            /\ calls[c].op \in Mutations
                  => calls[c].out =
                        Threw(<<Prefix(calls[c].op)>> \o NoBackendMessage)
            /\ calls[c].op = "testConnection" => calls[c].out = Returned(False)

\* A delete ended in local-only mode.
C6_Witness ==
    /\ LocalOnly
    /\ \E c \in DOMAIN calls :
          calls[c].op = "deleteProduct" /\ calls[c].out.st = "threw"

\* C7: without an override, a host that is no loopback name and no bare
\* IPv4 literal resolves to local-only, and a loopback host to the default.
C7_DeployedLocalOnlyLoopbackDefault ==
    (Loaded /\ ~ Truthy(envUrl)) =>
        /\ (hostname \notin {LOCALHOST, LOOPBACK_IP} /\ ~ MatchesIPv4(hostname))
              => API_BASE_URL = Undefined
        /\ hostname \in {LOCALHOST, LOOPBACK_IP}
              => API_BASE_URL = Str(DEFAULT_URL)

\* C8: with an override configured the resolved address is the override,
\* whatever the host; so it is in the second module.
C8_OverrideWins ==
    (Loaded /\ Truthy(envUrl)) =>
        /\ API_BASE_URL = envUrl
        /\ API_BASE_URL_2(envUrl) = envUrl

\* The module was evaluated with an override on a host that alone would
\* mean local-only.
C8_Witness ==
    /\ Loaded /\ envUrl = Str(UrlA) /\ hostname = HostShop
    /\ API_BASE_URL = Str(UrlA)

\* C9: an operation that starts uses the endpoint the current host context
\* resolves to: it fetches at that address, or fetches nothing when the
\* context resolves to local-only.
C9_EndpointFollowsContext ==
    [][\A c \in DOMAIN calls :
        Starts(c) =>
            LET now == baseOf(module, hostname, envUrl)
            IN  IF Truthy(now)
                THEN calls'[c].nfetch = 1 /\ calls'[c].base = now
                ELSE calls'[c].nfetch = 0
      ]_vars

\* The bundled sample set with ids 1..n in array order.
NumberedSample ==
    Arr([i \in 1..Len(sampleProducts) |-> [sampleProducts[i] EXCEPT !.id = i]])

Lookup(l, id) ==
    LET found == SelectSeq(l.items, LAMBDA p : p.id = id)
    IN  IF found = <<>>
        THEN Threw(<<"Product with ID ", ToString(id), " not found">>)
        ELSE Returned(Obj(found[1]))
\* The backup list, or the seeded sample when no backup exists.
BackupOrSample ==
    IF localStorage.has THEN JSONparse(localStorage.text) ELSE SeededProducts

\* C11: getProductById first attempts the remote read; when the attempt
\* fails (no backend, no response, a non-2xx response) the call ends with
\* the product of the backup list (or of the seeded sample) whose id is the
\* requested one, or with the not-found error naming the id.
C11_ReadOneFallsBackToBackup ==
    [][\A c \in DOMAIN calls :
        /\ (Starts(c) /\ calls'[c].op = "getProductById")
              => IF LocalOnly
                 THEN /\ calls'[c].pc = "idle"
                      /\ calls'[c].out \in
                            { Lookup(BackupOrSample, calls'[c].id),
                              Lookup(SeededProducts, calls'[c].id) }
                 ELSE calls'[c].pc = "request" /\ calls'[c].nfetch = 1
        /\ (/\ Step(c) /\ calls[c].op = "getProductById"
            /\ RemoteStepFailed(calls[c]))
              => /\ calls'[c].pc = "idle"
                 /\ calls'[c].out \in
                       { Lookup(BackupOrSample, calls[c].id),
                         Lookup(SeededProducts, calls[c].id) }
      ]_vars

\* The verbs that send a statement to the store.
StoreVerbs == {"GET", "POST", "PUT", "DELETE"}
\* The handler served a request that reaches a data statement.
ServedStatement ==
    /\ request.method \in StoreVerbs
    /\ ~ (request.method = "DELETE" /\ request.id = 0)

\* C12: once a GET, POST, PUT or DELETE was served, the products and the
\* comments relations exist, and the request did not fail for a missing
\* relation.
C12_MigratorRunsBeforeEveryRequest ==
    ServedStatement => productsTable /\ commentsTable

\* C13: after a GET, every add-column statement other than one that failed
\* has been executed (at most the failed column is missing), and the failure
\* did not become the response.
C13_AlterStatementsIsolated ==
    request.method = "GET" =>
        /\ Cardinality(AllAdded \ columns) <= 1
        /\ response.status \in {200, 404}

\* The step answers a request at its arrival: for a DELETE, with the
\* outcome of its existence check or before it.
AnsweredOnArrival == request'.method # "none" /\ serving' = serving

\* C14: a DELETE of an id that has no row when the request's existence check
\* runs answers 404 and leaves the table as it was; a DELETE without an id
\* answers 400 and leaves the store as it was.
C14_DeleteOfAbsentIdIsNotFound ==
    [][(request'.method = "DELETE" /\ AnsweredOnArrival) =>
        /\ request'.id = 0
              => /\ response'.status = 400
                 /\ response'.body = Failure(<<"Product ID is required">>)
                 /\ UnchangedDb
        /\ (request'.id # 0 /\ RowsWithId(table, request'.id) = <<>>)
              => /\ response'.status = 404
                 /\ table' = table
      ]_vars

\* C14, where the products relation exists when the DELETE arrives.
C14_DeleteWhereTableExists ==
    [][(request'.method = "DELETE" /\ AnsweredOnArrival /\ productsTable) =>
        /\ request'.id = 0
              => /\ response'.status = 400
                 /\ UnchangedDb
        /\ (request'.id # 0 /\ RowsWithId(table, request'.id) = <<>>)
              => /\ response'.status = 404
                 /\ table' = table
      ]_vars

\* A body's field as the store keeps it: an omitted field is absent.
Written(field) == IF field = UNDEF THEN NULL ELSE field

\* C15: a PUT for an id with a row overwrites name and status with the
\* body's values (an omitted one is absent afterwards), sets updated_at to
\* the store's clock and answers 200 with the row; a PUT for an id without a
\* row answers 404 with success:false and leaves the table as it was.
C15_PutReplacesFullRow ==
    [][request'.method = "PUT" =>
        LET existing == RowsWithId(table, request'.id)
        IN  IF existing = <<>>
            THEN /\ response'.status = 404
                 /\ response'.body.shape = "failure"
                 /\ table' = table
            ELSE LET row == [existing[1] EXCEPT
                                !.name = Written(request'.body.name),
                                !.status = Written(request'.body.status),
                                !.category = Written(request'.body.category),
                                !.brand = Written(request'.body.brand),
                                !.updated_at = clock]
                 IN  /\ response'.status = 200
                     /\ response'.body = Envelope("data", Obj(row))
                     /\ RowsWithId(table', request'.id) = <<row>>
      ]_vars

\* C15, where the products relation exists with all its columns when the PUT
\* arrives and the body of a PUT for an existing row carries a name.
C15_PutWhereRowWritable ==
    [][(/\ request'.method = "PUT" /\ WritableShape(Db)
        /\ (RowsWithId(table, request'.id) # <<>>
               => request'.body.name # UNDEF)) =>
        LET existing == RowsWithId(table, request'.id)
        IN  IF existing = <<>>
            THEN /\ response'.status = 404
                 /\ response'.body.shape = "failure"
                 /\ table' = table
            ELSE LET row == [existing[1] EXCEPT
                                !.name = Written(request'.body.name),
                                !.status = Written(request'.body.status),
                                !.category = Written(request'.body.category),
                                !.brand = Written(request'.body.brand),
                                !.updated_at = clock]
                 IN  /\ response'.status = 200
                     /\ response'.body = Envelope("data", Obj(row))
                     /\ RowsWithId(table', request'.id) = <<row>>
      ]_vars

\* C16: every response of the handler carries the CORS headers.
C16_EveryResponseCarriesCors ==
    request.method # "none" => response.cors

\* C17: a step that writes the backup slot is the end of a remote full read
\* that succeeded, or the save of a refresh whose remote full read
\* succeeded, and it writes what that read returned.
C17_BackupOnlyFromRemoteRead ==
    [][localStorage' # localStorage =>
        \E c \in DOMAIN calls :
            /\ Step(c)
            /\ \/ /\ \/ calls[c].op = "getAllProducts" /\ calls[c].pc = "request"
                     \/ calls[c].op \in Mutations /\ calls[c].pc = "refresh"
                  /\ apiRequestOf(module, API_BASE_URL, calls[c].resp).st
                        = "returned"
                  /\ localStorage' =
                        Item(JSONstringify(apiRequestOf(module, API_BASE_URL,
                                                        calls[c].resp).val))
               \/ /\ calls[c].op \in Mutations /\ calls[c].pc = "save"
                  /\ calls[c].rf \in {"saved", "writeFailed"}
                  /\ localStorage' = Item(JSONstringify(calls[c].list.val))
      ]_vars

\* C18: the backup slot, when present, holds a list of products.
C18_BackupHoldsProductList ==
    localStorage.has => JSONparse(localStorage.text).shape = "array"

\* The list a full read of the backend gives: the table, newest first, from
\* the handler; the list in the body from another backend.
RemoteResult(call) ==
    IF call.via = "handler" THEN RemoteList
    ELSE IF call.resp.body.shape = "envelope" THEN Payload(call.resp.body)
    ELSE call.resp.body

\* C19: in remote mode, a getAllProducts whose remote read succeeded returns
\* the remote list and leaves the backup slot holding it; one whose remote
\* read failed returns what getStoredProducts gives and leaves the slot as
\* it was.
C19_ReadAllWritesThroughOrFallsBack ==
    [][\A c \in DOMAIN calls :
        (Step(c) /\ calls[c].op = "getAllProducts" /\ calls[c].pc = "request")
            => IF RemoteStepFailed(calls[c])
               THEN /\ calls'[c].out \in
                          { Returned(getStoredProducts(localStorage, t)) :
                                t \in BOOLEAN }
                    /\ localStorage' = localStorage
               ELSE /\ calls'[c].out = Returned(RemoteResult(calls[c]))
                    /\ localStorage' =
                          Item(JSONstringify(RemoteResult(calls[c])))
      ]_vars

\* C20: a getStoredProducts, and a getAllProducts without a backend, leaves
\* the backup slot as it was, and on an empty or unreadable slot returns the
\* sample set numbered 1..n in array order.
C20_LoadSeedsWithoutPersisting ==
    [][\A c \in DOMAIN calls :
        (Step(c) /\ calls'[c].op \in {"getStoredProducts", "getAllProducts"})
            => /\ localStorage' = localStorage
               /\ (~ localStorage.has \/ calls'[c].via = "readFailed")
                     => calls'[c].out = Returned(NumberedSample)
      ]_vars

\* A read-all without a backend returned the numbered sample set and the
\* slot is still empty.
C20_Witness ==
    \E c \in DOMAIN calls :
        /\ calls[c].op = "getAllProducts" /\ calls[c].via = "read"
        /\ calls[c].out = Returned(NumberedSample)
        /\ Len(calls[c].out.val.items) = Len(sampleProducts)
        /\ ~ localStorage.has

\* The product list inside a value: the payload of an envelope, else the
\* value itself.
ListIn(v) == IF v.shape = "envelope" THEN Payload(v) ELSE v
\* Caller c ended an updateProduct that reported success, whose PUT (over
\* the deployment's route) and whose refresh read were both answered by
\* the handler and whose backup write went through.
UpdateCompleted(c) ==
    /\ calls[c].op = "updateProduct" /\ calls[c].pc = "idle"
    /\ calls[c].out.st = "returned" /\ calls[c].mres.shape = "envelope"
    /\ calls[c].via = "handler" /\ calls[c].rf = "saved"

HoldsOwnUpdate(c) ==
    \E i \in DOMAIN ListIn(JSONparse(localStorage'.text)).items :
        LET p == ListIn(JSONparse(localStorage'.text)).items[i]
        IN  /\ p.id = calls[c].id
            /\ p.updated_at >= calls[c].mres.items[1].updated_at

C22_FailuresClassifiedDistinctly ==
    [][\A c \in DOMAIN calls :
        (/\ Step(c) /\ calls[c].pc \in {"request", "refresh"}
         /\ calls[c].op # "testConnection"
         /\ apiRequestOf(module, API_BASE_URL, calls[c].resp).st = "threw")
            => LET resp == calls[c].resp
                   error == apiRequestOf(module, API_BASE_URL, resp)
               IN  /\ resp.net \/ ~ Ok(resp)
                   /\ resp.net => networkErrorLogged(error)
                   /\ ~ resp.net =>
                         /\ ~ networkErrorLogged(error)
                         /\ error.msg =
                               IF resp.body.error # <<>> THEN resp.body.error
                               ELSE <<"HTTP ", ToString(resp.status), ": ",
                                      resp.statusText>>
      ]_vars

\* C23: without an override, the resolved address is the caller's own host
\* on the default port and path only for a host that is a literal IPv4
\* address other than the loopback one, and every host that is neither a
\* literal address nor exactly a loopback name resolves to local-only.
C23_OwnHostOnlyForLiteralAddresses ==
    (Loaded /\ ~ Truthy(envUrl) /\ hostname \notin {LOCALHOST, LOOPBACK_IP}) =>
        /\ API_BASE_URL = Str(HTTP_PREFIX \o hostname \o PORT_PATH)
              => MatchesIPv4(hostname)
        /\ ~ MatchesIPv4(hostname) => ~ Truthy(API_BASE_URL)

\* C26: a DELETE request that found its row answers when its DELETE
\* statement has run: 200 with the row, which is then gone, or, when another
\* request removed the row in between, 404 with the table as it was.
C26_InterleavedDeletesOnceAndNotFound ==
    [][\A h \in Invocations :
          (serving[h].pc = "delete" /\ serving'[h].pc = "idle") =>
              LET row == RowsWithId(table, serving[h].req.id)
              IN  IF row # <<>>
                  THEN /\ response'.status = 200
                       /\ response'.body = Envelope("data", Obj(row[1]))
                       /\ RowsWithId(table', serving[h].req.id) = <<>>
                  ELSE /\ response'.status = 404
                       /\ table' = table
      ]_vars

\* The rows of the table a list request asks for: those a search term
\* occurs in (name, category or brand), those of a category, or all.
Searched(term) ==
    { i \in DOMAIN table : \/ ILike(table[i].name, term)
                           \/ ILike(table[i].category, term)
                           \/ ILike(table[i].brand, term) }
OfCategory(term) == { i \in DOMAIN table : ILike(table[i].category, term) }

\* The response is a list of exactly the rows picked, each once, newest
\* first.
AnswersList(picked) ==
    /\ response.status = 200
    /\ response.body.shape = "envelope"
    /\ response.body.pshape = "array"
    /\ Len(response.body.items) = Cardinality(picked)
    /\ { response.body.items[k] : k \in DOMAIN response.body.items }
          = { table[i] : i \in picked }
    /\ \A k, l \in DOMAIN response.body.items :
          k < l => response.body.items[k].created_at
                      >= response.body.items[l].created_at

\* C24: a GET with an id answers that row or 404 whatever search and
\* category say; without an id, a GET with a search term answers the rows the
\* term occurs in whatever category says; without both, a GET with a category
\* answers the rows of that category; a GET with none answers every row;
\* every list is ordered newest first.
C24_GetDispatchesByFirstMatch ==
    request.method = "GET" =>
        IF request.id # 0
        THEN LET result == RowsWithId(table, request.id)
             IN  IF result = <<>>
                 THEN response.status = 404 /\ response.body.shape = "failure"
                 ELSE /\ response.status = 200
                      /\ response.body = Envelope("data", Obj(result[1]))
        ELSE IF Given(request.search) THEN AnswersList(Searched(request.search))
        ELSE IF Given(request.category)
        THEN AnswersList(OfCategory(request.category))
        ELSE AnswersList(DOMAIN table)

\* A GET with an id, a search term the row does not match and a category was
\* answered with the row of the id.
C24_Witness ==
    /\ request.method = "GET"
    /\ request.id # 0 /\ Given(request.search) /\ Given(request.category)
    /\ response.status = 200
    /\ response.body.shape = "envelope" /\ response.body.pshape = "object"
    /\ response.body.items[1].id = request.id
    /\ \E i \in DOMAIN table : i \notin Searched(request.search)
    /\ Len(table) = 2

\* The verbs the handler's switch knows, with the preflight verb.
KnownVerbs == StoreVerbs \cup {"OPTIONS"}

\* The error a statement of the request req raises at the store as it is
\* now, or <<>> when none does: the relation or a named column is missing,
\* or the statement would write no name into a row.
Raised(req) ==
    LET missing == { NoColumn(c) : c \in AllAdded \ columns }
        noName == req.body.name = UNDEF
        shape == IF ~ productsTable THEN {NoRelation} ELSE missing
    IN  CASE req.method = "POST" ->
                IF shape # {} THEN shape
                ELSE IF noName THEN {NotNullViolation("name")} ELSE {}
          [] req.method = "PUT" ->
                IF shape # {} THEN shape
                ELSE IF noName /\ RowsWithId(table, req.id) # <<>>
                     THEN {NotNullViolation("name")} ELSE {}
          [] req.method = "DELETE" ->
                IF req.id # 0 /\ ~ productsTable THEN {NoRelation} ELSE {}
          [] OTHER -> {}

\* The step ends an invocation that was awaiting its DELETE statement when
\* the row is no longer there: the read of result[0].name throws.
DeletedMeanwhile ==
    \E h \in Invocations :
        /\ serving[h].pc = "delete" /\ serving'[h].pc = "idle"
        /\ RowsWithId(table, serving[h].req.id) = <<>>

\* C25: every invocation ends with a response; a request of another verb
\* than GET, POST, PUT, DELETE and OPTIONS is answered 405 with
\* success:false and the store is as it was; a GET, POST, PUT or DELETE is
\* answered 500 exactly when one of its statements or what follows it raises
\* an error, with success:false, the generic error text and the raised
\* error's message.
C25_UnknownVerbsAndFailuresAnswered ==
    [][request'.method # "none" =>
        LET raised ==
                IF DeletedMeanwhile
                THEN {<<"Cannot read properties of undefined (reading '",
                        "name", "')">>}
                ELSE Raised(request')
        IN  /\ response'.status \in {200, 201, 400, 404, 405, 500}
            /\ request'.method \notin KnownVerbs
                  => /\ response'.status = 405
                     /\ response'.body = Failure(<<"Method not allowed">>)
                     /\ UnchangedDb
            /\ request'.method \in KnownVerbs => response'.status # 405
            /\ raised # {}
                  => /\ response'.status = 500
                     /\ response'.body.shape = "failure"
                     /\ response'.body.error = <<"Internal server error">>
                     /\ response'.body.message \in raised
            /\ raised = {} => response'.status # 500
      ]_vars

\* A POST whose body has no name was answered 500 with the message of the
\* violated constraint.
C25_Witness ==
    /\ request.method = "POST" /\ request.body.name = UNDEF
    /\ response.status = 500
    /\ response.body.message = NotNullViolation("name")

\* The ids of the rows of a table.
Ids(rows) == { rows[i].id : i \in DOMAIN rows }

\* C27: after every request the ids of the table are pairwise distinct and
\* every row has updated_at >= created_at; a row that stays in the table
\* keeps its id and its created_at, a PUT keeps every row in its place
\* with its id, and a row that enters the table has the next id of the
\* sequence, which no row had before.
C27_IdsUniqueAndImmutable ==
    [][/\ \A i, j \in DOMAIN table' : table'[i].id = table'[j].id => i = j
       /\ \A i \in DOMAIN table' : table'[i].updated_at >= table'[i].created_at
       /\ \A i \in DOMAIN table, j \in DOMAIN table' :
             table[i].id = table'[j].id
                => table[i].created_at = table'[j].created_at
       /\ request'.method = "PUT"
             => /\ Len(table') = Len(table)
                /\ \A i \in DOMAIN table :
                      /\ table'[i].id = table[i].id
                      /\ table'[i].created_at = table[i].created_at
       /\ \A j \in DOMAIN table' :
             table'[j].id \notin Ids(table)
                => /\ request'.method = "POST"
                   /\ table'[j].id = nextId
                   /\ \A i \in DOMAIN table : table[i].id < nextId
      ]_vars

\* A PUT rewrote one of two rows: the row has its id and its created_at and
\* a later updated_at.
C27_Witness ==
    /\ request.method = "PUT" /\ response.status = 200
    /\ Len(table) = 2
    /\ \E i \in DOMAIN table :
          /\ table[i].id = request.id
          /\ table[i].updated_at > table[i].created_at

====
